---- MODULE Spec2Model ----
(***************************************************************************)
(* Verification model of the browser-UI helper plugins:                    *)
(*   - ConveyorBelt (src/js/ConveyorBelt.js): the throttled task queue,    *)
(*   - Thinking (src/unnamed/part_002): the idle timer,                    *)
(*   - Conditional (src/js/Conditional.js): the condition aggregator,      *)
(*   - Attention (src/unnamed/part_004): the lightbox overlay.             *)
(* The components do not interact; each has its own specification over    *)
(* its own variables and leaves the other component's variables alone.    *)
(***************************************************************************)
EXTENDS Integers, Sequences, FiniteSets, TLC

(* ------------------------------ bounds -------------------------------- *)
\* number of actions the client may add to the belt
MaxAdds == 3
\* number of interval timers the host hands out
MaxTimers == 3
\* largest explicit amount passed to flush(amount) / burn(amount)
MaxAmount == 2
\* longest queue handed to decimate
MaxLen == 6
\* decimate's factor is drawn from n / FactorDen, n in -1 .. FactorDen + 1
FactorDen == 4
\* the idle timer's clock runs from 0 to MaxTime, in units of 50 msec
MaxTime == 9
\* number of timeouts the host hands out to the idle timer
MaxTimeouts == 3
\* number of trigger listeners bound on the subject at a time
MaxTriggers == 2
\* number of $(subject).thinking(fn) calls
MaxWraps == 2
\* settings.idle, in clock units (200 msec)
IdleDelay == 4
\* number of listeners the host binds on the subject itself
MaxHost == 2
\* number of Attention objects the page creates
MaxDialogs == 2
\* number of overlays created by show calls
MaxShows == 3

(* ----------------------------- constants ------------------------------ *)
\* this.timerid = null; a host timer handle is a positive integer
Null == 0
\* the speed sentinel of the belt
Immediate == "immediate"
\* a duration speed (msec)
Durations == {"100ms"}
Speeds == {Immediate} \cup Durations
\* an omitted optional argument is <<>>, a given one is <<v>>
Undefined == <<>>
Some(v) == <<v>>

(* ------------------------- queued functions --------------------------- *)
\* A queued function: "plain" does its own work only; "adder" calls
\* belt.add(g) with a new plain function g while it runs (re-entrancy).
Kinds == {"plain", "adder"}
\* a function that throws when it is called
Thrower == "thrower"
Fn(id, kind) == [id |-> id, kind |-> kind]
\* the value of this.queue.pop() on an empty array
UndefinedFn == [id |-> 0, kind |-> "undefined"]
\* this.queue[i] = null (decimate's mark)
NullFn == [id |-> 0, kind |-> "null"]
\* function () {} (decimate's no-op)
NoopFn == [id |-> 0, kind |-> "noop"]

VARIABLES
    queue,      \* this.queue
    speed,      \* this.speed
    active,     \* this.active
    timerid,    \* this.timerid
    timers,     \* host: the live setInterval handles
    nextTimer,  \* host: the next handle setInterval returns
    nextId,     \* identity of the next function added
    executed,   \* log: ids of the functions run, in order
    discarded,  \* log: ids of the functions dropped by flush
    thrown,     \* the last operation ended with an exception (TypeError)
    last,       \* the last operation called: [op, n, s]
    dec,        \* the decimate call in progress: its argument and locals
    now,        \* host: the clock (new Date())
    thinking,   \* selector.data('thinking'): "undefined", "active" or "idle"
    lastreset,  \* selector.data('thinking.lastreset'): Undefined or Some(time)
    outstanding,\* selector.data('thinking.outstanding') || []
    timeouts,   \* host: the scheduled setTimeout timers, [id, due]
    nextTimeout,\* host: the next handle setTimeout returns
    triggers,   \* the '.thinking-trigger' listeners, each with its closure
    wrappers,   \* the 'focus.thinking' / 'blur.thinking' listener pairs
    handlers,   \* number of 'thinking' listeners on the subject
    events,     \* log of the current quiet period: the last activity event
                \* and the 'thinking' notifications since, [e, t, n]
    ilast,      \* the last idle-timer operation or event
    hostListeners, \* listeners the host bound on the subject, [type, ns]
    conds,      \* this.conds and this.data, in key order: [name, value, data]
    test,       \* this.test: the name of the test function
    clast,      \* the last Conditional operation and what it returned / called
    att         \* the Attention objects, the opendialogs registry, the
                \* pending fade-out callbacks and the document

beltVars == <<queue, speed, active, timerid, timers, nextTimer, nextId,
              executed, discarded, thrown, last>>

decVars == <<dec>>

idleVars == <<now, thinking, lastreset, outstanding, timeouts, nextTimeout,
              triggers, wrappers, handlers, events, ilast, hostListeners>>

condVars == <<conds, test, clast>>

attVars == <<att>>

vars == <<beltVars, decVars, idleVars, condVars, attVars>>

Min(a, b) == IF a < b THEN a ELSE b

\* the belt object together with the host's timers and the logs
Belt ==
    [queue |-> queue, speed |-> speed, active |-> active, timerid |-> timerid,
     timers |-> timers, nextTimer |-> nextTimer, nextId |-> nextId,
     executed |-> executed, discarded |-> discarded, thrown |-> FALSE]

(* ------------------------------ host ---------------------------------- *)
\* this.timerid = setInterval(this.process.bind(this), this.speed)
setInterval(b) ==
    [b EXCEPT !.timerid = b.nextTimer,
              !.timers = @ \cup {b.nextTimer},
              !.nextTimer = @ + 1]

\* clearInterval(this.timerid); this.timerid = null
clearInterval(b) ==
    [b EXCEPT !.timers = @ \ {b.timerid}, !.timerid = Null]

(* --------------------------- ConveyorBelt ----------------------------- *)
RECURSIVE add(_, _), burn(_, _), burnLoop(_, _), call(_, _)

\* a pop that takes the oldest entry (shift)
pop_first(b) ==
    IF b.queue = <<>>
    THEN <<b, UndefinedFn>>
    ELSE <<[b EXCEPT !.queue = Tail(@)], Head(b.queue)>>

\* a pop that leaves the entry queued
pop_keeps(b) ==
    IF b.queue = <<>>
    THEN <<b, UndefinedFn>>
    ELSE <<b, b.queue[Len(b.queue)]>>

\* var fn = this.queue.pop(): <<belt after the pop, fn>>
pop(b) ==
    IF b.queue = <<>>
    THEN <<b, UndefinedFn>>
    ELSE <<[b EXCEPT !.queue = SubSeq(@, 1, Len(@) - 1)], b.queue[Len(b.queue)]>>

\* fn() inside a try / catch the belt does not have: the drain goes on
call_catches(b, fn) ==
    CASE fn.kind \in {"undefined", "null"} -> [b EXCEPT !.thrown = TRUE]
      [] fn.kind = "noop" -> b
      [] fn.kind \in {"plain", Thrower} -> [b EXCEPT !.executed = Append(@, fn.id)]
      [] fn.kind = "adder" ->
            add([b EXCEPT !.executed = Append(@, fn.id), !.nextId = @ + 1],
                Fn(b.nextId, "plain"))

\* fn(): calling undefined or null is a TypeError, which unwinds to the host;
\* so does the exception of a function that throws (no try / catch in the belt)
call(b, fn) ==
    CASE fn.kind \in {"undefined", "null"} -> [b EXCEPT !.thrown = TRUE]
      [] fn.kind = Thrower ->
            [b EXCEPT !.executed = Append(@, fn.id), !.thrown = TRUE]
      [] fn.kind = "noop" -> b
      [] fn.kind = "plain" -> [b EXCEPT !.executed = Append(@, fn.id)]
      [] fn.kind = "adder" ->
            add([b EXCEPT !.executed = Append(@, fn.id), !.nextId = @ + 1],
                Fn(b.nextId, "plain"))

\* for (var count = limit - 1; count >= 0; count--) { pop; fn() }
burnLoop(b, count) ==
    IF count < 0 \/ b.thrown
    THEN b
    ELSE LET p == pop(b) IN burnLoop(call(p[1], p[2]), count - 1)

\* burn that ignores its amount and drains the whole queue
burn_everything(b, amount) == burnLoop(b, Len(b.queue) - 1)

burn(b, amount) ==
    LET amt == IF amount = Undefined THEN Len(b.queue) ELSE amount[1]
        limit == Min(amt, Len(b.queue))
    IN burnLoop(b, limit - 1)

\* add without the !this.timerid test: a timer per add
add_always_schedules(b, fn) ==
    LET b1 == [b EXCEPT !.queue = Append(@, fn)] IN
    IF ~b1.active THEN b1
    ELSE IF b1.speed = Immediate THEN burn(b1, Undefined)
    ELSE setInterval(b1)

\* add that only queues on an immediate belt
add_never_burns(b, fn) ==
    LET b1 == [b EXCEPT !.queue = Append(@, fn)] IN
    IF ~b1.active THEN b1
    ELSE IF b1.speed = Immediate THEN b1
    ELSE IF b1.timerid = Null THEN setInterval(b1)
    ELSE b1

\* add that never schedules the timer
add_never_schedules(b, fn) ==
    LET b1 == [b EXCEPT !.queue = Append(@, fn)] IN
    IF ~b1.active THEN b1
    ELSE IF b1.speed = Immediate THEN burn(b1, Undefined)
    ELSE b1

\* add that schedules the timer on a stopped belt as well
add_schedules_when_stopped(b, fn) ==
    LET b1 == [b EXCEPT !.queue = Append(@, fn)] IN
    IF b1.speed = Immediate THEN (IF b1.active THEN burn(b1, Undefined) ELSE b1)
    ELSE IF b1.timerid = Null THEN setInterval(b1)
    ELSE b1

add(b, fn) ==
    LET b1 == [b EXCEPT !.queue = Append(@, fn)] IN
    IF ~b1.active THEN b1
    ELSE IF b1.speed = Immediate THEN burn(b1, Undefined)
    ELSE IF b1.timerid = Null THEN setInterval(b1)
    ELSE b1

\* process that keeps its timer on an empty queue
process_keeps_timer(b) ==
    IF b.speed # Immediate /\ b.queue = <<>>
    THEN b
    ELSE LET p == pop(b) IN call(p[1], p[2])

process(b) ==
    IF b.speed # Immediate /\ b.queue = <<>>
    THEN clearInterval(b)
    ELSE LET p == pop(b) IN call(p[1], p[2])

\* stop that leaves the interval timer running
stop_keeps_timer(b) == [b EXCEPT !.active = FALSE]

stop(b) ==
    LET b1 == [b EXCEPT !.active = FALSE] IN
    IF b1.timerid # Null THEN clearInterval(b1) ELSE b1

\* start that does not burn at the immediate speed
start_never_burns(b, spd) ==
    LET b1 == [stop(b) EXCEPT !.active = TRUE]
        b2 == IF spd # Undefined THEN [b1 EXCEPT !.speed = spd[1]] ELSE b1
    IN IF b2.speed = Immediate
       THEN [b2 EXCEPT !.timerid = Null]
       ELSE setInterval(b2)

start(b, spd) ==
    LET b1 == [stop(b) EXCEPT !.active = TRUE]
        b2 == IF spd # Undefined THEN [b1 EXCEPT !.speed = spd[1]] ELSE b1
    IN IF b2.speed = Immediate
       THEN burn([b2 EXCEPT !.timerid = Null], Undefined)
       ELSE setInterval(b2)

\* this.queue.slice(0, amount), amount >= 0
slice(q, amount) == SubSeq(q, 1, Min(amount, Len(q)))

Ids(q) == {q[i].id : i \in 1..Len(q)}

\* flush that keeps the trailing amount entries instead of the leading ones
flush_keeps_tail(b, amount) ==
    LET len == Len(b.queue)
        kept == IF amount = Undefined THEN <<>>
                ELSE SubSeq(b.queue, len - Min(amount[1], len) + 1, len)
    IN [b EXCEPT !.queue = kept,
                 !.discarded = @ \cup (Ids(b.queue) \ Ids(kept))]

flush(b, amount) ==
    LET kept == IF amount = Undefined THEN <<>> ELSE slice(b.queue, amount[1])
    IN [b EXCEPT !.queue = kept,
                 !.discarded = @ \cup (Ids(b.queue) \ Ids(kept))]

\* new ConveyorBelt.ConveyorBelt(speed)
ConveyorBelt(spd) ==
    start([queue |-> <<>>, speed |-> spd, active |-> FALSE, timerid |-> Null,
           timers |-> {}, nextTimer |-> 1, nextId |-> 1,
           executed |-> <<>>, discarded |-> {}, thrown |-> FALSE],
          Undefined)

(* ----------------------------- actions -------------------------------- *)
Op(op, n, s) == [op |-> op, n |-> n, s |-> s]

Commit(b, l) ==
    /\ queue' = b.queue
    /\ speed' = b.speed
    /\ active' = b.active
    /\ timerid' = b.timerid
    /\ timers' = b.timers
    /\ nextTimer' = b.nextTimer
    /\ nextId' = b.nextId
    /\ executed' = b.executed
    /\ discarded' = b.discarded
    /\ thrown' = b.thrown
    /\ last' = l
    /\ UNCHANGED <<decVars, idleVars, condVars, attVars>>

\* no decimate call in progress
DecIdle ==
    [pc |-> "idle", factor |-> 0, reduction |-> 0, increment |-> 0,
     i |-> 0, loop |-> 0]

\* the state after var belt = new ConveyorBelt.ConveyorBelt(spd)
BeltCreated(spd) ==
    LET b == ConveyorBelt(spd) IN
    /\ queue = b.queue
    /\ speed = b.speed
    /\ active = b.active
    /\ timerid = b.timerid
    /\ timers = b.timers
    /\ nextTimer = b.nextTimer
    /\ nextId = b.nextId
    /\ executed = b.executed
    /\ discarded = b.discarded
    /\ thrown = b.thrown
    /\ last = Op("new", 0, spd)

BeltInit == \E spd \in Speeds : BeltCreated(spd)

\* belt.add(fn), fn a new function
AddOp ==
    /\ nextId <= MaxAdds
    /\ nextTimer <= MaxTimers
    /\ \E k \in Kinds :
         Commit(add([Belt EXCEPT !.nextId = @ + 1], Fn(nextId, k)),
                Op("add", nextId, k))

\* belt.add(fn), fn a new function that throws when it runs
AddThrow ==
    /\ nextId <= MaxAdds
    /\ nextTimer <= MaxTimers
    /\ Commit(add([Belt EXCEPT !.nextId = @ + 1], Fn(nextId, Thrower)),
              Op("add", nextId, Thrower))

\* the host fires a live interval timer: this.process()
Tick ==
    /\ timers # {}
    /\ Commit(process(Belt), Op("process", 0, ""))

StartOp ==
    /\ nextTimer <= MaxTimers
    /\ \/ Commit(start(Belt, Undefined), Op("start", 0, "undefined"))
       \/ \E spd \in Speeds : Commit(start(Belt, Some(spd)), Op("start", 0, spd))

StopOp == Commit(stop(Belt), Op("stop", 0, ""))

FlushOp ==
    \/ Commit(flush(Belt, Undefined), Op("flush", 0, "undefined"))
    \/ \E n \in 0..MaxAmount : Commit(flush(Belt, Some(n)), Op("flush", n, ""))

BurnOp ==
    /\ nextTimer <= MaxTimers
    /\ \/ Commit(burn(Belt, Undefined), Op("burn", 0, "undefined"))
       \/ \E n \in 0..MaxAmount : Commit(burn(Belt, Some(n)), Op("burn", n, ""))

\* no idle timer was started on the subject
IdleInit ==
    /\ now = 0
    /\ thinking = "undefined"
    /\ lastreset = Undefined
    /\ outstanding = <<>>
    /\ timeouts = {}
    /\ nextTimeout = 1
    /\ triggers = <<>>
    /\ wrappers = <<>>
    /\ handlers = 0
    /\ events = <<>>
    /\ ilast = "none"
    /\ hostListeners = {}

\* no Conditional in use: new Conditional.Conditional() and no call
CondIdle ==
    /\ conds = <<>>
    /\ test = "and"
    /\ clast = [op |-> "new", r |-> "none"]

\* the containers of the document: the page, and the overlays by the order
\* in which show created them
Page == 0
Dialogs == 1..MaxDialogs
Overlays == 1..MaxShows
Containers == {Page} \cup Overlays

\* the elements that move between containers: the box an Attention selects,
\* and a placeholder show inserts (id: the number of the show that made it)
Box(d) == [kind |-> "box", d |-> d, id |-> Null]
Placeholder(d, id) == [kind |-> "placeholder", d |-> d, id |-> id]

\* the state after the page created its Attention objects: none is showing,
\* the selected boxes are siblings in the page, opendialogs is empty and no
\* fade-out is pending
AttInit ==
    att = [showing |-> [d \in Dialogs |-> FALSE],
           overlay |-> [d \in Dialogs |-> Null],
           box |-> [d \in Dialogs |-> FALSE],
           opendialogs |-> <<>>,
           fading |-> <<>>,
           attached |-> {},
           content |-> [c \in Containers |->
                           IF c = Page THEN [d \in Dialogs |-> Box(d)]
                           ELSE <<>>],
           nextOverlay |-> 1,
           thrown |-> FALSE,
           last |-> "new"]

Init == BeltInit /\ dec = DecIdle /\ IdleInit /\ CondIdle /\ AttInit

Next == AddOp \/ Tick \/ StartOp \/ StopOp \/ FlushOp \/ BurnOp

Spec == Init /\ [][Next]_vars

\* the belt with clients whose functions may throw
ThrowNext == Next \/ AddThrow

ThrowSpec == Init /\ [][ThrowNext]_vars

\* the client only adds and the host fires the interval timer, fairly: a live
\* setInterval timer keeps firing until it is cleared
LiveNext == AddOp \/ Tick

LiveSpec == Init /\ [][LiveNext]_vars /\ WF_vars(Tick)

(* ------------------------ claims: ConveyorBelt ------------------------ *)
\* position of id x in the log (0: not run)
Pos(log, x) ==
    IF \E i \in 1..Len(log) : log[i] = x
    THEN CHOOSE i \in 1..Len(log) : log[i] = x
    ELSE 0

Count(log, x) == Cardinality({i \in 1..Len(log) : log[i] = x})

\* C1: in every reachable state at most one recurring drain timer is live,
\* and a live timer is the one recorded in timerid.
C1_AtMostOneTimer ==
    /\ Cardinality(timers) <= 1
    /\ timers # {} => timers = {timerid}

\* an add on a belt whose timer is live (and was restarted before) left one timer
C1_Witness ==
    /\ last.op = "add"
    /\ Len(queue) >= 2
    /\ nextTimer >= 3
    /\ timers = {timerid}

\* a step add(f2) that directly follows add(f1), on an active immediate belt
\* (f1 is last.n, f2 is last'.n)
TwoImmediateAdds ==
    /\ active /\ speed = Immediate
    /\ last.op = "add"
    /\ last'.op = "add"

\* C4 (as stated): after add(f1); add(f2) on an immediate belt both functions
\* have run, f2 before f1.
C4_ImmediateAddsLifo ==
    [][TwoImmediateAdds =>
          /\ Pos(executed', last.n) > 0
          /\ Pos(executed', last'.n) > 0
          /\ Pos(executed', last'.n) < Pos(executed', last.n)]_vars

\* C4 (amended): each add on an active immediate belt runs the added function
\* inside the call: f1 has run when add(f1) has returned, add(f2) only extends
\* the log, f2 runs inside add(f2), hence after f1, and the queue is drained.
C4_ImmediateAddsInOrder ==
    [][TwoImmediateAdds =>
          /\ Pos(executed, last.n) > 0
          /\ Len(executed') > Len(executed)
          /\ SubSeq(executed', 1, Len(executed)) = executed
          /\ Pos(executed', last'.n) > Len(executed)
          /\ Pos(executed', last.n) < Pos(executed', last'.n)
          /\ queue' = <<>>]_vars

\* a belt created immediate (no timer was ever set) after add(f1); add(f2)
C4_Witness ==
    /\ active /\ speed = Immediate
    /\ nextTimer = 1
    /\ last = Op("add", 2, "plain")
    /\ executed = <<1, 2>>
    /\ queue = <<>>

\* C5: duration speed, one function added and no further adds: under fair
\* ticks the function runs exactly once and then the timer is cleared for good.
C5_OneActionRunsThenTimerCleared ==
    (speed \in Durations /\ [](nextId <= 2) /\ <>(nextId = 2))
        => <>[](executed = <<1>> /\ timerid = Null /\ timers = {})

C5_Witness ==
    /\ speed \in Durations
    /\ nextId = 2
    /\ executed = <<1>>
    /\ last.op = "process"
    /\ timerid = Null /\ timers = {}

\* C6: when a function run by a drain calls add, the drain never pops from an
\* empty queue (never calls a non-function), and no function is lost or run twice.
C6_ReentrantAddConsistent ==
    /\ ~thrown
    /\ \A x \in 1..(nextId - 1) :
          /\ Count(executed, x) <= 1
          /\ (x \in Ids(queue)) \/ (Count(executed, x) = 1) \/ (x \in discarded)

\* the amount of a burn / flush step: the argument, or the default
Amount(l, default) == IF l.s = "undefined" THEN default ELSE l.n

\* C12: burn(n) on a queue of length len whose popped functions do not re-enter
\* the belt removes exactly min(n, len) functions, runs exactly those, each
\* once, most recently added first, and leaves the first len - min(n, len)
\* queued in their order; burn() removes and runs all of them.
C12_BurnRemovesMinLifo ==
    [][LET len == Len(queue)
           m == Min(Amount(last', len), len)
       IN (last'.op = "burn"
             /\ \A k \in (len - m + 1)..len : queue[k].kind = "plain")
          => /\ queue' = SubSeq(queue, 1, len - m)
             /\ executed' = executed \o [k \in 1..m |-> queue[len - k + 1].id]
             /\ ~thrown']_vars

\* burn(2) on the queue <<f1, f2, f3>> of a belt that has run nothing before
C12_Witness ==
    /\ last = Op("burn", 2, "")
    /\ queue = <<Fn(1, "plain")>>
    /\ executed = <<3, 2>>

C14_StoppedBeltRunsNothing ==
    [][/\ last'.op = "stop"
             => /\ ~active' /\ timerid' = Null /\ timers' = {}
                /\ queue' = queue /\ executed' = executed
       /\ ~active' => (timerid' = Null /\ timers' = {})
       /\ (~active /\ last'.op = "add")
             => /\ queue' = Append(queue, Fn(last'.n, last'.s))
                /\ executed' = executed
                /\ ~active'
       /\ (~active /\ ~active' /\ Len(queue') < Len(queue))
             => last'.op \in {"burn", "flush"}
       /\ (~active /\ ~active' /\ executed' # executed)
             => last'.op = "burn"]_vars

\* a belt whose timer was live, stopped, and then given two functions
C14_Witness ==
    /\ ~active
    /\ last.op = "add"
    /\ nextTimer >= 2
    /\ Len(queue) >= 2
    /\ executed = <<>>
    /\ timers = {}

\* C17 (as stated): whenever timerid is non-null the belt is active, the speed
\* is a duration, and no timer is scheduled for an empty queue, right after
\* create / start included.
C17_TimerOnlyForNonEmptyQueue ==
    timerid # Null =>
        /\ active
        /\ speed \in Durations
        /\ ~(last.op \in {"new", "start"} /\ queue = <<>>)

\* C17 (amended): whenever timerid is non-null the belt is active, the speed is
\* a duration and the timer is live; create / start at a duration speed
\* schedule the timer whatever the queue holds, and a tick that finds the
\* queue empty cancels it, so no tick since scheduling found the queue empty.
C17_TimerWhileActiveUntilFoundEmpty ==
    /\ timerid # Null => (active /\ speed \in Durations /\ timers = {timerid})
    /\ [][/\ timerid' # Null
                => (active' /\ speed' \in Durations /\ timers' = {timerid'})
          /\ (last'.op = "start" /\ speed' \in Durations) => timerid' # Null
          /\ (last'.op = "process" /\ queue = <<>>)
                => (timerid' = Null /\ timers' = {})
          /\ (last'.op = "process" /\ queue # <<>>) => timerid' = timerid]_vars

\* a restart at a duration speed on an empty queue leaves a timer scheduled
C17_Witness ==
    /\ last.op = "start"
    /\ queue = <<>>
    /\ active /\ speed \in Durations
    /\ nextTimer >= 3
    /\ timerid # Null

\* the functions of q above position p are plain
PlainAbove(q, p) == \A k \in (p + 1)..Len(q) : q[k].kind = "plain"

\* C20: when a drain (tick, burn, immediate add or start) runs a function that
\* throws, the exception is not caught: the operation ends thrown, nothing
\* runs after the throwing function, and the functions below it stay queued.
C20_ExceptionAbortsDrain ==
    [][LET q0 == IF last'.op = "add"
                 THEN Append(queue, Fn(last'.n, last'.s)) ELSE queue
       IN \A p \in 1..Len(q0) :
             (/\ q0[p].kind = Thrower
              /\ PlainAbove(q0, p)
              /\ Pos(executed', q0[p].id) > Len(executed))
             => /\ thrown'
                /\ executed'[Len(executed')] = q0[p].id
                /\ queue' = SubSeq(q0, 1, p - 1)]_vars

\* burn() on <<f1, thrower f2, f3>>: f3 ran, f2 threw, f1 is still queued
C20_Witness ==
    /\ last.op = "burn"
    /\ thrown
    /\ executed = <<3, 2>>
    /\ queue = <<Fn(1, "plain")>>

\* C24: a tick on a non-empty queue runs exactly one function, the one added
\* last of those still queued, and removes it (a function that re-enters add
\* leaves its new function queued, not run); the timer stays. A tick on an
\* empty queue (the speed is a duration) runs nothing and cancels the timer.
C24_TickRunsOneLifo ==
    [][last'.op = "process"
          => IF queue = <<>>
             THEN /\ speed \in Durations
                  /\ executed' = executed
                  /\ queue' = <<>>
                  /\ timerid' = Null /\ timers' = {}
             ELSE LET fn == queue[Len(queue)]
                      rest == SubSeq(queue, 1, Len(queue) - 1)
                  IN /\ executed' = Append(executed, fn.id)
                     /\ queue' = IF fn.kind = "adder"
                                 THEN Append(rest, Fn(nextId, "plain"))
                                 ELSE rest
                     /\ timerid' = timerid /\ timers' = timers
                     /\ ~thrown']_vars

\* the first tick on <<f1, f2, f3>> ran f3
C24_Witness ==
    /\ last.op = "process"
    /\ executed = <<3>>
    /\ queue = <<Fn(1, "plain"), Fn(2, "plain")>>
    /\ timerid # Null

\* C28: on a belt that stays active at a duration speed, with fair ticks and
\* only adds (which cease), eventually every function added has run exactly
\* once, the queue is empty and the timer is cancelled, for good.
C28_EveryAddedActionRuns ==
    speed \in Durations
        => <>[](/\ queue = <<>>
                /\ timerid = Null /\ timers = {}
                /\ \A x \in 1..(nextId - 1) : Count(executed, x) = 1)

\* three or more functions have run and a last tick cancelled the timer
C28_Witness ==
    /\ speed \in Durations
    /\ last.op = "process"
    /\ Len(executed) >= 3
    /\ queue = <<>>
    /\ timerid = Null /\ timers = {}

\* the number of queue slots that hold the function with identity x
Queued(x) == Cardinality({k \in 1..Len(queue) : queue[k].id = x})

\* C29: every function added is in exactly one place: queued (once), run
\* exactly once, or dropped by flush without having run; none runs twice.
C29_Conservation ==
    \A x \in 1..(nextId - 1) :
        /\ Count(executed, x) <= 1
        /\ Queued(x) + Count(executed, x) + (IF x \in discarded THEN 1 ELSE 0) = 1

\* one function queued, one run and one dropped
C29_Witness ==
    /\ nextId = 4
    /\ Len(queue) = 1
    /\ Len(executed) = 1
    /\ Cardinality(discarded) = 1

\* C30: between operations an active belt at the immediate speed has an empty
\* queue and no timer; start at the immediate speed runs every queued
\* function, once, before it returns.
C30_ImmediateBeltIsDrained ==
    /\ [](active /\ speed = Immediate
             => queue = <<>> /\ timerid = Null /\ timers = {})
    /\ [][(last'.op = "start" /\ speed' = Immediate)
              => /\ queue' = <<>>
                 /\ \A k \in 1..Len(queue) :
                       /\ Count(executed, queue[k].id) = 0
                       /\ Count(executed', queue[k].id) = 1]_vars

\* start('immediate') on a stopped belt holding <<f1, f2>> that had run nothing
C30_Witness ==
    /\ last = Op("start", 0, Immediate)
    /\ executed = <<2, 1>>
    /\ queue = <<>>
    /\ ~thrown
    /\ timerid = Null

(* ------------------------------ decimate ------------------------------ *)
\* decimate reads and writes only this.queue. Its while loop need not exit,
\* so the call is modelled iteration by iteration, in a specification of its
\* own (DecSpec) whose initial states draw the queue length and the factor.
\* Utils.cutoff(factor, 0, 1) on the numerator of factor = x / FactorDen
cutoff(x, lo, hi) == IF x < lo THEN lo ELSE IF x > hi THEN hi ELSE x

\* a rounding that never yields 0
round_at_least_one(len, num) ==
    IF (2 * len * num + FactorDen) \div (2 * FactorDen) = 0 THEN 1
    ELSE (2 * len * num + FactorDen) \div (2 * FactorDen)

\* Math.round(len * factor), factor = num / FactorDen >= 0 (halves round up)
round(len, num) == (2 * len * num + FactorDen) \div (2 * FactorDen)

\* the belt decimate is called on: created, stopped, n functions added
DecBelt(n) ==
    LET F[k \in 0..n] ==
            IF k = 0 THEN stop(ConveyorBelt("100ms"))
            ELSE add([F[k - 1] EXCEPT !.nextId = @ + 1], Fn(k, "plain"))
    IN F[n]

DecInit ==
    \E n \in 0..MaxLen, f \in -1..(FactorDen + 1) :
        LET b == DecBelt(n) IN
        /\ queue = b.queue
        /\ speed = b.speed
        /\ active = b.active
        /\ timerid = b.timerid
        /\ timers = b.timers
        /\ nextTimer = b.nextTimer
        /\ nextId = b.nextId
        /\ executed = b.executed
        /\ discarded = b.discarded
        /\ thrown = b.thrown
        /\ last = Op("decimate", f, "")
        /\ dec = [DecIdle EXCEPT !.pc = "call", !.factor = f]
        /\ IdleInit
        /\ CondIdle
        /\ AttInit

beltFrame == <<speed, active, timerid, timers, nextTimer, nextId,
               executed, discarded, thrown, last, idleVars, condVars,
               attVars>>

\* decimate's entry with Math.floor in place of Math.round
DecimateEnter_floor ==
    /\ dec.pc = "call"
    /\ IF Len(queue) <= 1
       THEN dec' = [dec EXCEPT !.pc = "done"]
       ELSE LET factor == cutoff(dec.factor, 0, FactorDen)
                reduction == (Len(queue) * factor) \div FactorDen
            IN dec' = [dec EXCEPT
                         !.pc = "while",
                         !.factor = factor,
                         !.reduction = reduction,
                         !.increment = IF reduction = 0 THEN 0
                                       ELSE Len(queue) \div reduction,
                         !.i = 0,
                         !.loop = 0]
    /\ UNCHANGED <<queue, beltFrame>>

\* decimate's entry: the length test and the locals before the while loop.
\* Math.floor(len / 0) is Infinity and is never read (the loop is not
\* entered); it is recorded as 0.
DecimateEnter ==
    /\ dec.pc = "call"
    /\ IF Len(queue) <= 1
       THEN dec' = [dec EXCEPT !.pc = "done"]
       ELSE LET factor == cutoff(dec.factor, 0, FactorDen)
                reduction == round(Len(queue), factor)
            IN dec' = [dec EXCEPT
                         !.pc = "while",
                         !.factor = factor,
                         !.reduction = reduction,
                         !.increment = IF reduction = 0 THEN 0
                                       ELSE Len(queue) \div reduction,
                         !.i = 0,
                         !.loop = 0]
    /\ UNCHANGED <<queue, beltFrame>>

\* the loop body without the test that protects the final slot
DecimateIter_unprotected ==
    /\ dec.pc = "while"
    /\ dec.reduction > 0
    /\ LET len == Len(queue)
           i == (dec.i + dec.increment) % len
           marks == queue[i + 1] # NullFn
           loop == (dec.loop + 1) % len
       IN /\ queue' = IF marks THEN [queue EXCEPT ![i + 1] = NullFn] ELSE queue
          /\ dec' = [dec EXCEPT
                       !.i = i,
                       !.reduction = IF marks THEN @ - 1 ELSE @,
                       !.loop = loop,
                       !.increment = IF loop = 0 /\ @ > 1 THEN @ - 1
                                     ELSE IF loop = 0 THEN 1 ELSE @]
    /\ UNCHANGED beltFrame

\* one iteration of while (reduction > 0). loop is kept modulo the queue
\* length: the code reads it only in loop % this.queue.length.
DecimateIter ==
    /\ dec.pc = "while"
    /\ dec.reduction > 0
    /\ LET len == Len(queue)
           i == (dec.i + dec.increment) % len
           marks == queue[i + 1] # NullFn
           loop == (dec.loop + 1) % len
       IN IF i = len - 1
          THEN /\ dec' = [dec EXCEPT !.i = i]
               /\ UNCHANGED queue
          ELSE /\ queue' = IF marks THEN [queue EXCEPT ![i + 1] = NullFn] ELSE queue
               /\ dec' = [dec EXCEPT
                            !.i = i,
                            !.reduction = IF marks THEN @ - 1 ELSE @,
                            !.loop = loop,
                            !.increment = IF loop = 0 /\ @ > 1 THEN @ - 1
                                          ELSE IF loop = 0 THEN 1 ELSE @]
    /\ UNCHANGED beltFrame

\* the loop's exit without the clean-up pass
DecimateReturn_no_cleanup ==
    /\ dec.pc = "while"
    /\ dec.reduction = 0
    /\ dec' = [dec EXCEPT !.pc = "done"]
    /\ UNCHANGED <<queue, beltFrame>>

\* the loop's exit and the clean-up pass: every null below the last slot
\* becomes a no-op
DecimateReturn ==
    /\ dec.pc = "while"
    /\ dec.reduction = 0
    /\ queue' = [k \in 1..Len(queue) |->
                    IF k <= Len(queue) - 1 /\ queue[k] = NullFn
                    THEN NoopFn ELSE queue[k]]
    /\ dec' = [dec EXCEPT !.pc = "done"]
    /\ UNCHANGED beltFrame

DecNext == DecimateEnter \/ DecimateIter \/ DecimateReturn

\* the call runs to its end unless the loop never exits
DecSpec == DecInit /\ [][DecNext]_vars /\ WF_vars(DecNext)

(* -------------------------- claims: decimate -------------------------- *)
\* C2: decimate terminates for every queue length and every factor in
\* [0, 1]: the marking loop always reaches reduction = 0 and the call returns.
C2_DecimateTerminates ==
    (dec.factor \in 0..FactorDen) => <>(dec.pc = "done")

\* C3: decimate(1) on a queue of length >= 2 returns with every slot except
\* the last a no-op and the last slot still its original function.
C3_DecimateOneKeepsOnlyLast ==
    (dec.factor = FactorDen /\ Len(queue) >= 2)
        => <>(/\ dec.pc = "done"
              /\ Len(queue) >= 2
              /\ \A k \in 1..(Len(queue) - 1) : queue[k] = NoopFn
              /\ queue[Len(queue)] = Fn(Len(queue), "plain"))

\* C15: at every step of decimate and after it, for every factor and queue,
\* the queue keeps its length and its last slot holds the function added last
\* (never null, never a no-op).
C15_DecimateProtectsLast ==
    /\ Len(queue) = nextId - 1
    /\ Len(queue) >= 1 => queue[Len(queue)] = Fn(Len(queue), "plain")

\* a decimate that returned after it turned a slot into a no-op
C15_Witness ==
    /\ dec.pc = "done"
    /\ Len(queue) >= 3
    /\ \E k \in 1..(Len(queue) - 1) : queue[k] = NoopFn
    /\ queue[Len(queue)] = Fn(Len(queue), "plain")

\* C16: decimate(factor <= 0) on any queue, and decimate(factor) on a queue of
\* length 0 or 1, return and leave every slot, the length, active, speed and
\* the timer as they were when decimate was called.
C16_DecimateNoOp ==
    (dec.factor <= 0 \/ Len(queue) <= 1)
        => /\ <>(dec.pc = "done")
           /\ [](/\ queue = DecBelt(nextId - 1).queue
                 /\ active = DecBelt(nextId - 1).active
                 /\ speed = DecBelt(nextId - 1).speed
                 /\ timerid = DecBelt(nextId - 1).timerid
                 /\ timers = DecBelt(nextId - 1).timers
                 /\ executed = <<>>)

\* decimate(0) has returned on a queue of two or more
C16_Witness ==
    /\ dec.pc = "done"
    /\ last.n = 0
    /\ Len(queue) >= 2
    /\ queue = DecBelt(nextId - 1).queue

\* C25: whenever decimate has returned, the queue has the length it had, every
\* slot holds either the function it held, at the same index, or a no-op, and
\* no slot holds null.
C25_DecimatePreservesSlots ==
    dec.pc = "done" =>
        /\ Len(queue) = nextId - 1
        /\ \A k \in 1..Len(queue) : queue[k] \in {Fn(k, "plain"), NoopFn}

\* a decimate that returned with a no-op slot below a slot it did not mark
C25_Witness ==
    /\ dec.pc = "done"
    /\ \E j, k \in 1..(Len(queue) - 1) :
          /\ j < k
          /\ queue[j] = NoopFn
          /\ queue[k] = Fn(k, "plain")

\* the slots below the last one that hold a no-op
NoOps == {j \in 1..(Len(queue) - 1) : queue[j] = NoopFn}

\* C31: whenever decimate(factor) has returned on a queue of length len >= 2,
\* exactly round(len * clamp(factor, 0, 1)) slots hold a no-op, all of them
\* below the last slot.
C31_DecimateMarksExactlyK ==
    (dec.pc = "done" /\ Len(queue) >= 2) =>
        /\ Cardinality(NoOps) = round(Len(queue), cutoff(last.n, 0, FactorDen))
        /\ queue[Len(queue)] # NoopFn

\* a decimate that returned after it rewrote two or more slots and kept
\* two or more
C31_Witness ==
    /\ dec.pc = "done"
    /\ Cardinality(NoOps) >= 2
    /\ Len(queue) - Cardinality(NoOps) >= 2
    /\ Cardinality(NoOps) = round(Len(queue), cutoff(last.n, 0, FactorDen))

(* ------------------------------ Thinking ------------------------------ *)
\* the subject's data, its listeners and the host's timeouts
Subject ==
    [thinking |-> thinking, lastreset |-> lastreset, outstanding |-> outstanding,
     timeouts |-> timeouts, nextTimeout |-> nextTimeout, triggers |-> triggers,
     wrappers |-> wrappers, handlers |-> handlers, events |-> events,
     hostListeners |-> hostListeners]

\* an event name of a jQuery event specifier: "type.ns1.ns2"
Name(type, ns) == [type |-> type, ns |-> ns]

\* the private namespace of the trigger listeners
Tag == "thinking-trigger"

\* $.fn.thinking.defaults.events: 'keydown keypress mousedown'
DefaultEvents ==
    <<Name("keydown", {}), Name("keypress", {}), Name("mousedown", {})>>

\* the types of the events dispatched on the subject
EventTypes == {"keydown", "keypress", "mousedown", "keyup"}

\* namespaceEvents that strips the plugin's namespaces and adds none
namespaceEvents_untagged(specifier) ==
    [k \in 1..Len(specifier) |->
        Name(specifier[k].type, specifier[k].ns \ {"thinking", Tag})]

\* namespaceEvents(specifier): '.thinking' and '.thinking-trigger' are
\* deleted from the string, then every name gets '.thinking-trigger'
namespaceEvents(specifier) ==
    [k \in 1..Len(specifier) |->
        Name(specifier[k].type, (specifier[k].ns \ {"thinking", Tag}) \cup {Tag})]

\* the names of a specifier; .on('') binds nothing
Names(specifier) == {specifier[k] : k \in 1..Len(specifier)}

\* a listener bound under the names in on runs for an event of this type
BoundOn(on, type) == \E n \in on : n.type = type

\* selector.off('.ns'): removes every binding whose namespaces include ns;
\* a trigger listener left without a binding is gone, and the wrapper's
\* listeners are 'focus.thinking' and 'blur.thinking'
off(s, ns) ==
    LET unbound(tr) == [tr EXCEPT !.on = {n \in @ : ns \notin n.ns}] IN
    [s EXCEPT
        !.triggers = SelectSeq([k \in 1..Len(@) |-> unbound(@[k])],
                               LAMBDA tr : tr.on # {}),
        !.hostListeners = {h \in @ : ns \notin h.ns},
        !.wrappers = IF ns = "thinking" THEN <<>> ELSE @]

\* $.grep(ids, function (x) { return x !== id; })
grep(ids, id) == SelectSeq(ids, LAMBDA x : x # id)

\* host: setTimeout(callback, delay) at time t; the handle is s.nextTimeout
setTimeout(s, delay, t) ==
    [s EXCEPT !.timeouts = @ \cup {[id |-> s.nextTimeout, due |-> t + delay]},
              !.nextTimeout = @ + 1]

\* host: clearTimeout(id); a handle that fired or was cleared is ignored
clearTimeout(s, id) ==
    [s EXCEPT !.timeouts = {x \in @ : x.id # id}]

\* startThinking's timeout(settings): schedule the idle fire and record its
\* handle in 'thinking.outstanding'; the handle returned is s.nextTimeout
timeout(s, idle, t) ==
    [setTimeout(s, idle, t) EXCEPT !.outstanding = Append(@, s.nextTimeout)]

\* resetTimeout that leaves the previous timer scheduled
resetTimeout_keeps_old(s, id, idle, t) ==
    timeout([s EXCEPT !.thinking = "active", !.lastreset = Some(t)], idle, t)

\* startThinking's resetTimeout(id, settings)
resetTimeout(s, id, idle, t) ==
    LET s1 == IF id # Null
              THEN [clearTimeout(s, id) EXCEPT !.outstanding = grep(@, id)]
              ELSE s
    IN timeout([s1 EXCEPT !.thinking = "active", !.lastreset = Some(t)], idle, t)

\* the k-th trigger listener's handler: timerid = resetTimeout(timerid, settings)
onTrigger(s, k, t) ==
    [resetTimeout(s, s.triggers[k].timerid, s.triggers[k].idle, t)
        EXCEPT !.triggers[k].timerid = s.nextTimeout]

\* an event of the given type on the subject runs every trigger listener
\* bound on that type, in the order they were bound
dispatchActivity(s, type, t) ==
    LET F[k \in 0..Len(s.triggers)] ==
            IF k = 0 THEN s
            ELSE IF BoundOn(s.triggers[k].on, type) THEN onTrigger(F[k - 1], k, t)
            ELSE F[k - 1]
    IN F[Len(s.triggers)]

\* startThinking(selector, options): binds one more trigger listener, whose
\* closure holds its own timerid (undefined at first), under the namespaced
\* names of settings.events (options.events, or the default)
startThinking(s, idle, evts) ==
    LET settings == IF evts = Undefined THEN DefaultEvents ELSE evts[1]
        on == Names(namespaceEvents(settings))
    IN IF on = {} THEN s
       ELSE [s EXCEPT !.triggers =
                Append(@, [timerid |-> Null, idle |-> idle, on |-> on])]

\* the setTimeout callback of timeout(): the idle fire
idleFire(s, id, t) ==
    [s EXCEPT !.timeouts = {x \in @ : x.id # id},
              !.thinking = "idle",
              !.events = Append(@, [e |-> "thinking", t |-> t, n |-> 0])]

\* cancelThinking that also marks the subject idle
cancelThinking_marks_idle(s) ==
    LET ids == {s.outstanding[k] : k \in 1..Len(s.outstanding)} IN
    [s EXCEPT !.timeouts = {x \in @ : x.id \notin ids},
              !.thinking = "idle",
              !.lastreset = Undefined,
              !.outstanding = <<>>]

\* cancelThinking that also unbinds the trigger listeners
cancelThinking_unbinds(s) ==
    LET ids == {s.outstanding[k] : k \in 1..Len(s.outstanding)} IN
    [s EXCEPT !.timeouts = {x \in @ : x.id \notin ids},
              !.lastreset = Undefined,
              !.outstanding = <<>>,
              !.triggers = <<>>]

cancelThinking(s) ==
    LET ids == {s.outstanding[k] : k \in 1..Len(s.outstanding)} IN
    [s EXCEPT !.timeouts = {x \in @ : x.id \notin ids},
              !.lastreset = Undefined,
              !.outstanding = <<>>]

\* doneThinking without the call of cancelThinking
doneThinking_keeps_timers(s) ==
    [off(s, Tag) EXCEPT !.thinking = "undefined"]

doneThinking(s) ==
    [off(cancelThinking(s), Tag) EXCEPT !.thinking = "undefined"]

\* .thinking('done').off('thinking').off('.thinking')
clearThinking(s) ==
    off([doneThinking(s) EXCEPT !.handlers = 0], "thinking")

\* $(subject).thinking(options, fn): focus starts, blur is done, fn listens
thinkingWrap(s, idle) ==
    [s EXCEPT !.wrappers = Append(@, [idle |-> idle]), !.handlers = @ + 1]

\* a focus event runs every 'focus.thinking' listener
dispatchFocus(s) ==
    LET F[k \in 0..Len(s.wrappers)] ==
            IF k = 0 THEN s
            ELSE startThinking(F[k - 1], s.wrappers[k].idle, Undefined)
    IN F[Len(s.wrappers)]

\* a blur event runs every 'blur.thinking' listener
dispatchBlur(s) ==
    LET F[k \in 0..Len(s.wrappers)] ==
            IF k = 0 THEN s ELSE doneThinking(F[k - 1])
    IN F[Len(s.wrappers)]

\* thinking('running')
running(s) == s.thinking = "active"

\* a JavaScript value: a number, undefined, or NaN
Number(v) == [type |-> "number", v |-> v]
UndefinedValue == [type |-> "undefined", v |-> 0]
NaN == [type |-> "NaN", v |-> 0]

\* thinking('elapsed'): (new Date()) - undefined is NaN
elapsed(s, t) ==
    IF s.thinking = "active"
    THEN IF s.lastreset = Undefined THEN NaN ELSE Number(t - s.lastreset[1])
    ELSE UndefinedValue

(* ------------------------- actions: Thinking -------------------------- *)
IdleCommit(s, l) ==
    /\ thinking' = s.thinking
    /\ lastreset' = s.lastreset
    /\ outstanding' = s.outstanding
    /\ timeouts' = s.timeouts
    /\ nextTimeout' = s.nextTimeout
    /\ triggers' = s.triggers
    /\ wrappers' = s.wrappers
    /\ handlers' = s.handlers
    /\ events' = s.events
    /\ ilast' = l
    /\ hostListeners' = s.hostListeners
    /\ UNCHANGED <<now, beltVars, decVars, condVars, attVars>>

\* $(subject).thinking('start', { idle: IdleDelay })
IdleStart ==
    /\ Len(triggers) < MaxTriggers
    /\ IdleCommit(startThinking(Subject, IdleDelay, Undefined), "start")

\* $(subject).thinking({ idle: IdleDelay }, fn)
IdleWrap ==
    /\ Len(wrappers) < MaxWraps
    /\ IdleCommit(thinkingWrap(Subject, IdleDelay), "wrap")

Focus ==
    /\ wrappers # <<>>
    /\ Len(triggers) + Len(wrappers) <= MaxTriggers
    /\ IdleCommit(dispatchFocus(Subject), "focus")

Blur ==
    /\ wrappers # <<>>
    /\ IdleCommit(dispatchBlur(Subject), "blur")

\* the number of trigger listeners that run for an event of the type
Bound(type) ==
    Cardinality({k \in 1..Len(triggers) : BoundOn(triggers[k].on, type)})

\* an event of the given type is dispatched on the subject
Event(type) ==
    /\ nextTimeout + Len(triggers) - 1 <= MaxTimeouts
    /\ IdleCommit(dispatchActivity(
                     [Subject EXCEPT !.events =
                         <<[e |-> "activity", t |-> now, n |-> Bound(type)]>>],
                     type, now),
                  "activity")

\* a qualifying activity event (keydown) is dispatched on the subject
Activity == Event("keydown")

\* the host runs a timeout that is due
IdleFire ==
    \E x \in timeouts :
        /\ x.due <= now
        /\ IdleCommit(idleFire(Subject, x.id, now), "fire")

IdleCancel == IdleCommit(cancelThinking(Subject), "cancel")

IdleDone == IdleCommit(doneThinking(Subject), "done")

IdleClear == IdleCommit(clearThinking(Subject), "clear")

\* the clock advances; a timeout fires when it is due, not later
Advance ==
    /\ now < MaxTime
    /\ \A x \in timeouts : x.due > now
    /\ now' = now + 1
    /\ UNCHANGED <<thinking, lastreset, outstanding, timeouts, nextTimeout,
                   triggers, wrappers, handlers, events, ilast, hostListeners,
                   beltVars, decVars, condVars, attVars>>

IdleNext ==
    \/ IdleStart \/ IdleWrap \/ Focus \/ Blur \/ Activity \/ IdleFire
    \/ IdleCancel \/ IdleDone \/ IdleClear \/ Advance

\* the idle timer on its own: the belt is created and left alone
IdleSpecInit ==
    BeltCreated("100ms") /\ dec = DecIdle /\ IdleInit /\ CondIdle /\ AttInit

IdleSpec == IdleSpecInit /\ [][IdleNext]_vars

\* the options.events strings passed to start: '', 'keyup', and
\* 'keyup keypress.thinking mousedown.rawr.thinking-trigger'
StartEvents ==
    {<<>>,
     <<Name("keyup", {})>>,
     <<Name("keyup", {}), Name("keypress", {"thinking"}),
       Name("mousedown", {"rawr", Tag})>>}

\* $(subject).thinking('start', { idle: IdleDelay, events: ... })
IdleStartOn ==
    /\ Len(triggers) < MaxTriggers
    /\ \E evts \in StartEvents :
          IdleCommit(startThinking(Subject, IdleDelay, Some(evts)), "start")

\* the names the host binds its own listeners under: 'keydown', 'keyup.rawr',
\* 'keydown.thinking', and one that borrows the private tag
HostNames ==
    {Name("keydown", {}), Name("keyup", {"rawr"}), Name("keydown", {"thinking"}),
     Name("mousedown", {Tag})}

\* the host's $(subject).on(name, fn)
HostOn ==
    /\ Cardinality(hostListeners) < MaxHost
    /\ \E h \in HostNames \ hostListeners :
          IdleCommit([Subject EXCEPT !.hostListeners = @ \cup {h}], "on")

\* the subject's listeners: starts with any event list, the host's own
\* listeners, events of every type; the clock stands still (the idle fire
\* binds and removes no listener)
ListenNext ==
    \/ IdleStart \/ IdleStartOn \/ HostOn \/ (\E type \in EventTypes : Event(type))
    \/ IdleWrap \/ Focus \/ Blur \/ IdleCancel \/ IdleDone \/ IdleClear

ListenSpec == IdleSpecInit /\ [][ListenNext]_vars

(* ----------------------------- Conditional ---------------------------- *)
\* the names of the conditions the client registers
CondNames == {"a", "b", "c"}

\* the test functions the module offers
Tests == {"and", "nand", "or", "nor", "xor"}

\* Object.keys(conds).map(function (key) { return conds[key] })
Values(c) == [k \in 1..Len(c) |-> c[k].value]

\* values.reduce(f, initial), f a function of the accumulator and the value
reduce(f, values, initial) ==
    LET F[k \in 0..Len(values)] ==
            IF k = 0 THEN initial ELSE f[F[k - 1], values[k]]
    IN F[Len(values)]

and(c) == reduce([a, b \in BOOLEAN |-> a /\ b], Values(c), TRUE)

nand(c) == ~and(c)

or(c) == reduce([a, b \in BOOLEAN |-> a \/ b], Values(c), TRUE)

nor(c) == ~or(c)

xor(c) ==
    reduce([a, b \in BOOLEAN |-> ~(a /\ b) /\ (a \/ b)], Values(c), TRUE)

\* this.test(this.conds, this.data)
assess(c, t) ==
    CASE t = "and" -> and(c)
      [] t = "nand" -> nand(c)
      [] t = "or" -> or(c)
      [] t = "nor" -> nor(c)
      [] t = "xor" -> xor(c)

\* execute: the callback called and the value returned
execute(c, t) == IF assess(c, t) THEN "success" ELSE "failure"

\* the index of the key name in the object (0: no such key)
Key(c, name) ==
    IF \E k \in 1..Len(c) : c[k].name = name
    THEN CHOOSE k \in 1..Len(c) : c[k].name = name
    ELSE 0

\* lazySet(name, value, data): value || false; data, or null when omitted.
\* A new key goes last, a key that exists keeps its place.
lazySet(c, name, value, data) ==
    LET entry == [name |-> name,
                  value |-> IF value = Undefined THEN FALSE ELSE value[1],
                  data |-> IF data = Undefined THEN "null" ELSE data[1]]
    IN IF Key(c, name) = 0 THEN Append(c, entry)
       ELSE [c EXCEPT ![Key(c, name)] = entry]

\* lazyRemove(name): delete this.conds[name]; delete this.data[name]
lazyRemove(c, name) == SelectSeq(c, LAMBDA e : e.name # name)

\* the arguments of set / lazySet
CondValues == {Undefined, Some(TRUE), Some(FALSE)}
CondData == {Undefined, Some("d")}

(* ------------------------ actions: Conditional ------------------------ *)
CondFrame == UNCHANGED <<test, beltVars, decVars, idleVars, attVars>>

\* cond.set(name, value, data)
CondSet ==
    \E name \in CondNames, value \in CondValues, data \in CondData :
        /\ conds' = lazySet(conds, name, value, data)
        /\ clast' = [op |-> "set", r |-> execute(conds', test)]
        /\ CondFrame

\* cond.lazySet(name, value, data)
CondLazySet ==
    \E name \in CondNames, value \in CondValues, data \in CondData :
        /\ conds' = lazySet(conds, name, value, data)
        /\ clast' = [op |-> "lazySet", r |-> "none"]
        /\ CondFrame

\* cond.remove(name)
CondRemove ==
    \E name \in CondNames :
        /\ conds' = lazyRemove(conds, name)
        /\ clast' = [op |-> "remove", r |-> execute(conds', test)]
        /\ CondFrame

\* cond.lazyRemove(name)
CondLazyRemove ==
    \E name \in CondNames :
        /\ conds' = lazyRemove(conds, name)
        /\ clast' = [op |-> "lazyRemove", r |-> "none"]
        /\ CondFrame

\* cond.execute()
CondExecute ==
    /\ clast' = [op |-> "execute", r |-> execute(conds, test)]
    /\ UNCHANGED conds
    /\ CondFrame

\* cond.assess()
CondAssess ==
    /\ clast' = [op |-> "assess",
                 r |-> IF assess(conds, test) THEN "true" ELSE "false"]
    /\ UNCHANGED conds
    /\ CondFrame

\* new Conditional.Conditional({ set: ..., test: ... }): args.set is absent,
\* { a: false } or { a: true, b: false }; the data object starts empty
CondSets ==
    {<<>>,
     <<[name |-> "a", value |-> FALSE, data |-> "absent"]>>,
     <<[name |-> "a", value |-> TRUE, data |-> "absent"],
       [name |-> "b", value |-> FALSE, data |-> "absent"]>>}

CondInit ==
    /\ conds \in CondSets
    /\ test \in Tests
    /\ clast = [op |-> "new", r |-> "none"]

CondSpecInit ==
    BeltCreated("100ms") /\ dec = DecIdle /\ IdleInit /\ CondInit /\ AttInit

CondNext ==
    \/ CondSet \/ CondLazySet \/ CondRemove \/ CondLazyRemove
    \/ CondExecute \/ CondAssess

CondSpec == CondSpecInit /\ [][CondNext]_vars

(* ------------------------ claims: Conditional ------------------------- *)
\* the number of registered conditions whose value is true
TrueCount == Cardinality({k \in 1..Len(conds) : conds[k].value})

\* C22: for every registered set of conditions, or is true iff at least one
\* condition is true, and nor is its negation.
C22_OrIsDisjunction ==
    conds # <<>> =>
        /\ or(conds) = (TrueCount >= 1)
        /\ nor(conds) = (TrueCount = 0)

\* C23: for every registered set of conditions, xor is true iff an odd number
\* of conditions are true.
C23_XorIsParity ==
    conds # <<>> => (xor(conds) = (TrueCount % 2 = 1))

(***************************************************************************)
(* Attention (src/unnamed/part_004).  The record att holds, per Attention  *)
(* object d: showing, overlay (Null or the overlay element, named by the   *)
(* number of the show that created it) and box (whether this.box selected  *)
(* an element); the module-level opendialogs; the queue of fade-out        *)
(* completion callbacks (all fades last 200 ms, so they complete in the    *)
(* order the dismiss calls started them); the overlays attached to the     *)
(* body; and the children of each container in document order.  Styling    *)
(* (z-index values, visibility, classes) and key/click handlers are not    *)
(* part of the state.                                                      *)
(***************************************************************************)

TypeError == "TypeError"

\* the container that holds element x (none when x was removed)
Holder(a, x) ==
    {c \in Containers : \E i \in DOMAIN a.content[c] : a.content[c][i] = x}

Index(seq, x) == CHOOSE i \in DOMAIN seq : seq[i] = x

InsertAt(seq, i, x) == SubSeq(seq, 1, i - 1) \o <<x>> \o SubSeq(seq, i, Len(seq))

\* an element is in the document when its container is the page or an
\* overlay that is appended to the body
InDocument(a, x) ==
    \E c \in Holder(a, x) : c = Page \/ c \in a.attached

\* $(this.selector).first() selects the box when it is in the document
first(a, d) == InDocument(a, Box(d))

\* x.detach() / x.remove(): x leaves its container
detach(a, x) ==
    [a EXCEPT !.content =
        [c \in Containers |-> SelectSeq(a.content[c], LAMBDA y : y # x)]]

\* target.after(x): x becomes the next sibling of target
after(a, target, x) ==
    LET c == CHOOSE c \in Holder(a, target) : TRUE
    IN  [a EXCEPT !.content[c] = InsertAt(@, Index(@, target) + 1, x)]

\* target.before(x): x becomes the previous sibling of target; nothing
\* happens when target has no parent
before(a, target, x) ==
    IF Holder(a, target) = {} THEN a
    ELSE LET c == CHOOSE c \in Holder(a, target) : TRUE
         IN  [a EXCEPT !.content[c] = InsertAt(@, Index(@, target), x)]

\* overlay.append(x): x becomes the last child of overlay o
append(a, o, x) == [a EXCEPT !.content[o] = Append(@, x)]

\* $('#' + this.placeholderid): the first element in document order with
\* the placeholder id of d (Null when there is none); the page precedes the
\* overlays, which follow each other in the order they were appended
byId(a, d) ==
    LET InDoc == {c \in Containers : c = Page \/ c \in a.attached}
        Has(c) == \E i \in DOMAIN a.content[c] :
                      /\ a.content[c][i].kind = "placeholder"
                      /\ a.content[c][i].d = d
        Cs == {c \in InDoc : Has(c)}
    IN  IF Cs = {} THEN Null
        ELSE LET c == CHOOSE c \in Cs : \A c2 \in Cs : c <= c2
                 Is == {i \in DOMAIN a.content[c] :
                           /\ a.content[c][i].kind = "placeholder"
                           /\ a.content[c][i].d = d}
                 i == CHOOSE i \in Is : \A i2 \in Is : i <= i2
             IN  a.content[c][i].id

\* determineZIndex(attention): zEmpty says whether the z-index of the new,
\* still detached overlay reads as empty (it depends on the browser); then
\* the overlay of every registered dialog is dereferenced
determineZIndex(a, zEmpty) ==
    IF /\ zEmpty
       /\ \E i \in DOMAIN a.opendialogs : a.overlay[a.opendialogs[i]] = Null
    THEN TypeError
    ELSE "z"

\* attention.show()
show(a, d, zEmpty) ==
    IF a.showing[d] THEN [a EXCEPT !.last = "show", !.thrown = FALSE]
    ELSE
    LET o == a.nextOverlay
        found == first(a, d)
        a1 == [a EXCEPT !.showing[d] = TRUE,
                        !.box[d] = found,
                        !.overlay[d] = o,
                        !.nextOverlay = o + 1,
                        !.last = "show",
                        !.thrown = FALSE]
        a2 == IF found THEN after(a1, Box(d), Placeholder(d, o)) ELSE a1
    IN  IF determineZIndex(a2, zEmpty) = TypeError
        THEN [a2 EXCEPT !.thrown = TRUE]
        ELSE LET a3 == IF found THEN append(detach(a2, Box(d)), o, Box(d))
                       ELSE a2
             IN  [a3 EXCEPT !.attached = @ \cup {o},
                            !.opendialogs = Append(@, d)]

\* attention.dismiss(): the part that runs synchronously
dismiss(a, d) ==
    IF ~a.showing[d] THEN [a EXCEPT !.last = "dismiss", !.thrown = FALSE]
    ELSE
    LET a1 == [a EXCEPT !.showing[d] = FALSE,
                        !.last = "dismiss",
                        !.thrown = FALSE]
    IN  IF a.overlay[d] = Null
        THEN [a1 EXCEPT !.thrown = TRUE]
        ELSE [a1 EXCEPT !.fading = Append(@, [d |-> d,
                                              placeholder |-> byId(a, d)]),
                        !.opendialogs = grep(@, d)]

\* the completion callback dismiss hands to overlay.fadeOut
fadeOut(a) ==
    LET c == Head(a.fading)
        d == c.d
        placeholder == Placeholder(d, c.placeholder)
        a1 == [a EXCEPT !.fading = Tail(@),
                        !.last = "fadeOut",
                        !.thrown = FALSE]
        a2 == IF a.box[d] THEN detach(a1, Box(d)) ELSE a1
        a3 == IF a.box[d] /\ c.placeholder # Null
              THEN before(a2, placeholder, Box(d))
              ELSE a2
        a4 == IF c.placeholder # Null THEN detach(a3, placeholder) ELSE a3
    IN  IF a.overlay[d] = Null
        THEN [a4 EXCEPT !.thrown = TRUE]
        ELSE LET a5 == [a4 EXCEPT !.attached = @ \ {a.overlay[d]},
                                  !.overlay[d] = Null]
                 n == Len(a5.opendialogs)
             IN  IF n > 0 /\ a5.overlay[a5.opendialogs[n]] = Null
                 THEN [a5 EXCEPT !.thrown = TRUE]
                 ELSE a5

AttFrame == UNCHANGED <<beltVars, decVars, idleVars, condVars>>

AttShow ==
    /\ att.nextOverlay <= MaxShows
    /\ \E d \in Dialogs, zEmpty \in BOOLEAN : att' = show(att, d, zEmpty)
    /\ AttFrame

AttDismiss ==
    /\ \E d \in Dialogs : att' = dismiss(att, d)
    /\ AttFrame

AttFadeOut ==
    /\ att.fading # <<>>
    /\ att' = fadeOut(att)
    /\ AttFrame

AttSpecInit ==
    BeltCreated("100ms") /\ dec = DecIdle /\ IdleInit /\ CondIdle /\ AttInit

AttNext == AttShow \/ AttDismiss \/ AttFadeOut

AttSpec == AttSpecInit /\ [][AttNext]_vars

\* the members of the open-dialog registry
Registered == {att.opendialogs[i] : i \in DOMAIN att.opendialogs}

\* C32: at every point of every interleaving of show, dismiss and fade-out
\* completion, an Attention that is showing has a non-null overlay that
\* contains its box, and opendialogs holds exactly the Attention objects
\* that are showing, each once and each with a non-null overlay.
C32_ShowingHasOverlayAndIsRegistered ==
    /\ \A d \in Dialogs :
           att.showing[d] =>
               /\ att.overlay[d] # Null
               /\ Holder(att, Box(d)) = {att.overlay[d]}
    /\ Registered = {d \in Dialogs : att.showing[d]}
    /\ Len(att.opendialogs) = Cardinality(Registered)
    /\ \A d \in Registered : att.overlay[d] # Null

(* -------------------------- claims: Thinking -------------------------- *)
\* C7: with one trigger listener bound (a single start), every activity event
\* cancels the pending idle fire and schedules exactly one new one, IdleDelay
\* after the event; so a quiet period has at most one 'thinking' notification
\* and it comes IdleDelay after the period's activity event, never at a time
\* computed from an earlier event.
C7_OneFirePerQuietPeriod ==
    /\ (ilast = "activity" /\ Len(triggers) = 1) =>
          timeouts = {[id |-> triggers[1].timerid,
                       due |-> events[1].t + triggers[1].idle]}
    /\ (events # <<>> /\ events[1].n = 1) =>
          /\ Len(events) <= 2
          /\ \A k \in 2..Len(events) :
                /\ events[k].e = "thinking"
                /\ events[k].t = events[1].t + IdleDelay

\* three activity events (three timeouts issued, the last event at t = 250 msec)
\* and then the one notification, at t = 450 msec
C7_Witness ==
    /\ Len(triggers) = 1
    /\ nextTimeout = 4
    /\ ilast = "fire"
    /\ now = 9
    /\ events = <<[e |-> "activity", t |-> 5, n |-> 1],
                  [e |-> "thinking", t |-> 9, n |-> 0]>>
    /\ timeouts = {}

\* C8: in every reachable state (repeated start and the wrapper's focus-triggered
\* start included) at most one scheduled and unfired idle-fire timer exists.
C8_AtMostOnePendingFire == Cardinality(timeouts) <= 1

\* C9: each of cancel, done and clear leaves the subject Inactive (running()
\* is false) with no scheduled idle fire.
C9_CancelDoneClearInactive ==
    ilast \in {"cancel", "done", "clear"} =>
        /\ thinking = "undefined"
        /\ ~running(Subject)
        /\ timeouts = {}

\* C10: while the state is Active, lastreset is defined and elapsed() is the
\* non-negative number now - lastreset; in every other state it is undefined.
C10_ElapsedDefinedIffActive ==
    /\ thinking = "active" =>
          /\ lastreset # Undefined
          /\ elapsed(Subject, now) = Number(now - lastreset[1])
          /\ now - lastreset[1] >= 0
    /\ thinking # "active" => elapsed(Subject, now) = UndefinedValue

\* C11: immediately after start returns, before any activity event, the state
\* is Active (running() is true) and lastreset is the time of the start call.
C11_StartMarksActive ==
    [][(ilast' = "start" /\ Len(triggers') = Len(triggers) + 1)
          => /\ thinking' = "active"
             /\ lastreset' = Some(now)]_vars

\* C18: done removes every listener start installed, under each name of its
\* event list, and no listener of the host that does not carry the private
\* tag: those, the wrapper's focus / blur listeners and the 'thinking'
\* handlers are still bound.
C18_DoneRemovesOnlyTagged ==
    [][ilast' = "done"
          => /\ triggers' = <<>>
             /\ hostListeners' = {h \in hostListeners : Tag \notin h.ns}
             /\ wrappers' = wrappers
             /\ handlers' = handlers]_vars

\* after a done: the host's untagged listeners on keydown and keyup are bound,
\* the trigger listeners (which had run) are gone
C18_Witness ==
    /\ ilast = "done"
    /\ hostListeners = {Name("keydown", {}), Name("keyup", {"rawr"})}
    /\ triggers = <<>>
    /\ nextTimeout >= 2

\* C19: done and clear leave no scheduled timer and no trigger listener; from
\* then until the next start (triggers is empty) no timer is scheduled, no
\* 'thinking' notification is emitted and an activity event changes nothing.
C19_NoNotificationAfterDone ==
    [][/\ ilast' \in {"done", "clear"} => (timeouts' = {} /\ triggers' = <<>>)
       /\ triggers' = <<>> => (timeouts' = {} /\ thinking' = "undefined")
       /\ triggers = <<>>
             => /\ ilast' # "fire"
                /\ \A k \in 1..Len(events') : events'[k].e = "thinking" =>
                      (k <= Len(events) /\ events[k] = events'[k])
       /\ (triggers = <<>> /\ ilast' = "activity")
             => /\ thinking' = thinking
                /\ lastreset' = lastreset
                /\ outstanding' = outstanding
                /\ nextTimeout' = nextTimeout
                /\ timeouts' = {}]_vars

\* an activity event after a done that followed scheduled timers
C19_Witness ==
    /\ ilast = "activity"
    /\ triggers = <<>>
    /\ nextTimeout >= 3
    /\ events = <<[e |-> "activity", t |-> now, n |-> 0]>>
    /\ timeouts = {}
    /\ thinking = "undefined"

\* C21 (as stated): a reset (activity event), cancel or done while no idle
\* fire is scheduled changes nothing: state, timestamp, outstanding handles,
\* scheduled timers and subscriptions stay as they were.
C21_NoTimerNoOp ==
    [][(timeouts = {} /\ ilast' \in {"activity", "cancel", "done"})
          => UNCHANGED <<thinking, lastreset, outstanding, timeouts, triggers,
                         wrappers, handlers, hostListeners>>]_vars

\* C21 (amended): on a subject with no trigger listener bound (never started,
\* or done since) cancel and done change nothing; a cancel while no idle fire
\* is scheduled schedules nothing, leaves the subscriptions alone and removes
\* the timestamp and the outstanding handles; a reset while no idle fire is
\* scheduled schedules one and marks the subject active.
C21_InactiveCancelDoneNoOp ==
    [][/\ (triggers = <<>> /\ ilast' \in {"cancel", "done"})
             => UNCHANGED <<thinking, lastreset, outstanding, timeouts,
                            nextTimeout, triggers, wrappers, handlers,
                            hostListeners, events>>
       /\ (timeouts = {} /\ ilast' = "cancel")
             => /\ UNCHANGED <<timeouts, nextTimeout, triggers,
                               wrappers, handlers, hostListeners>>
                /\ lastreset' = Undefined
                /\ outstanding' = <<>>
       /\ (timeouts = {} /\ ilast' = "activity" /\ events' # events
              /\ Bound("keydown") > 0)
             => /\ Cardinality(timeouts') = Bound("keydown")
                /\ thinking' = "active"
                /\ lastreset' = Some(now)]_vars

\* a cancel on a subject that has a 'thinking' handler and a wrapper but no
\* trigger listener (cancel unbinds none, so none was bound before it)
C21_Witness ==
    /\ ilast = "cancel"
    /\ triggers = <<>>
    /\ wrappers # <<>>
    /\ thinking = "undefined"
    /\ timeouts = {}

\* C26: 'thinking.outstanding' holds exactly the handles of the idle fires
\* that are scheduled and have neither fired nor been cancelled.
C26_OutstandingIsPending ==
    {outstanding[k] : k \in 1..Len(outstanding)} = {x.id : x \in timeouts}

\* C27: cancel leaves the trigger listeners bound; the next activity event
\* after it runs each of them: a new idle fire is scheduled IdleDelay later
\* and lastreset is the time of the event.
C27_CancelKeepsSubscriptions ==
    [][/\ ilast' = "cancel"
             => (triggers' = triggers /\ wrappers' = wrappers
                   /\ handlers' = handlers /\ hostListeners' = hostListeners)
       /\ (ilast = "cancel" /\ ilast' = "activity" /\ triggers # <<>>)
             => /\ timeouts' = {[id |-> triggers'[k].timerid,
                                 due |-> now + triggers[k].idle] :
                                   k \in 1..Len(triggers)}
                /\ Cardinality(timeouts') = Len(triggers)
                /\ \A x \in timeouts' : x.id >= nextTimeout
                /\ lastreset' = Some(now)
                /\ thinking' = "active"]_vars

\* a cancel that cleared a scheduled idle fire; the listener is still bound
\* and an activity event can follow
C27_Witness ==
    /\ ilast = "cancel"
    /\ Len(triggers) = 1
    /\ triggers[1].timerid # Null
    /\ timeouts = {}
    /\ lastreset = Undefined
    /\ nextTimeout <= MaxTimeouts

====
